---- MODULE Spec2Model ----
(***************************************************************************)
(* Order, commission and refund engine of the online fitness store.        *)
(*                                                                         *)
(* Money is an integer number of cents.  A commission rate is an integer   *)
(* number of ten-thousandths (DecimalField decimal_places = 4).  A value   *)
(* that Python holds with more than two decimals (line_total * rate) is    *)
(* an integer number of 1/RateScale cents until the store rounds it.       *)
(*                                                                         *)
(* The store is PostgreSQL (core/admin_views.py backs it up with pg_dump): *)
(* READ COMMITTED transactions, row locks held by UPDATE until commit, a   *)
(* unique index under which two empty strings collide and two NULLs do     *)
(* not, numeric(10,2) columns that round what they are given.              *)
(***************************************************************************)
EXTENDS Integers, Sequences, FiniteSets, TLC

VARIABLES
  rounding,    \* how the store rounds a decimal of more than 2 places
  sellerRate,  \* Seller.commission_rate, per seller
  product,     \* Product rows
  order,       \* Order rows, in insertion order (the id is the index)
  item,        \* OrderItem rows, in insertion order
  co,          \* checkout requests in flight, per worker
  refund,      \* committed Refund rows, by id
  nextRefund,  \* the next value of the Refund id sequence
  rw,          \* refund requests in flight, per worker
  gwCalls,     \* stripe.Refund.create calls issued, per Refund id
  now,         \* the clock, in days
  ledgerItems,   \* the OrderItem rows an earnings statement is drawn from
  ledgerRefunds, \* the succeeded Refund rows it is drawn from
  statement,     \* the last earnings statement rendered
  inventoryLog,  \* the InventoryLog rows, oldest first
  shipOrder,     \* the stored Order row with its shipping-address snapshot
  aw,            \* per worker, the adjust_inventory call it is running
  adjustCalls,   \* the adjust_inventory calls that returned, in that order
  taxFlags,      \* per product, its charge_gst and charge_pst columns
  quote,         \* the totals the last checkout request computed
  payoutHold,    \* per seller, Seller.payout_hold_days
  dash,          \* the earnings figures of the last seller dashboard
  userProfile,   \* the address fields of the customer's profile
  exported       \* the last exported statement

vars == <<rounding, sellerRate, product, order, item, co,
          refund, nextRefund, rw, gwCalls, now,
          ledgerItems, ledgerRefunds, statement, inventoryLog, shipOrder,
          aw, adjustCalls, taxFlags, quote,
          payoutHold, dash, userProfile, exported>>

checkoutVars == <<product, order, item, co>>
refundVars == <<refund, nextRefund, rw, gwCalls, now>>
ledgerVars == <<ledgerItems, ledgerRefunds, statement>>
lateVars == <<payoutHold, dash, userProfile, exported>>
moreVars == <<aw, adjustCalls, taxFlags, quote, lateVars>>
auxVars == <<ledgerVars, inventoryLog, shipOrder, moreVars>>

-----------------------------------------------------------------------------
(* Bounds of the model *)

MaxQty == 2
MaxPrice == 12
MaxOrders == 2
InitStock == 3
MaxRefunds == 2
MaxSelect == 2
MaxCalls == 2
StartDay == 7
MaxDay == 8

(* Program constants *)

RateScale == 10000
TaxRatePercent == 5
FreeShippingThreshold == 10000
FlatShipping == 1500
DEFAULT_REFUND_WINDOW_DAYS == 7

Workers == {"w1", "w2"}
Sellers == {"sA", "sB"}
NoSeller == "none"
Products == {"p1", "p2"}
ProductSeq == <<"p1", "p2">>
Intents == {"pi_A", "pi_B"}
\* SQL NULL / Python None in a text column and in a number column.
NULL == "NULL"
None == 0 - 1
OrderIds == 1..MaxOrders
RefundIds == 1..MaxRefunds

-----------------------------------------------------------------------------
(* Money & tax primitives *)

\* Decimal.quantize(Decimal("0.01")) of n/d cents, default context rounding
\* ROUND_HALF_EVEN (n >= 0, d > 0).
QuantizeHalfEven(n, d) ==
  LET q == n \div d
      r == n % d
  IN IF 2 * r > d \/ (2 * r = d /\ q % 2 = 1) THEN q + 1 ELSE q

\* PostgreSQL numeric(10,2) rounds half away from zero (n >= 0, d > 0).
QuantizeHalfUp(n, d) ==
  LET q == n \div d
      r == n % d
  IN IF 2 * r >= d THEN q + 1 ELSE q

\* What a DecimalField(decimal_places=2) column holds after a value of n/d
\* cents is saved: the PostgreSQL back end passes the Decimal on unrounded
\* and the column rounds it; the other back ends quantize with the default
\* context first.
StoreDecimal(n, d) ==
  IF rounding = "half_even" THEN QuantizeHalfEven(n, d) ELSE QuantizeHalfUp(n, d)

RECURSIVE SumSeq(_)
SumSeq(s) == IF s = <<>> THEN 0 ELSE Head(s) + SumSeq(Tail(s))

-----------------------------------------------------------------------------
(* Commission splitter: OrderItem.save *)

\* The in-memory fields after the body of OrderItem.save ran on `self`
\* (fields product, quantity, price, seller), before the row is written:
\* platform_fee and seller_earnings in 1/RateScale cents.
OrderItem_compute(self) ==
  LET seller == IF product[self.product].seller # NoSeller
                THEN product[self.product].seller ELSE self.seller
      line_total == self.price * self.quantity
      commission == seller # NoSeller /\ line_total > 0
      platform_fee == IF commission THEN line_total * sellerRate[seller] ELSE 0
      seller_earnings == IF commission THEN line_total * RateScale - platform_fee
                         ELSE line_total * RateScale
  IN [seller |-> seller, line_total |-> line_total,
      platform_fee |-> platform_fee, seller_earnings |-> seller_earnings]

\* The row OrderItem.save stores: every DecimalField rounded by the store on
\* its own.
OrderItem_save(self) ==
  LET c == OrderItem_compute(self)
  IN [order |-> self.order, product |-> self.product, quantity |-> self.quantity,
      price |-> self.price, seller |-> c.seller, line_total |-> c.line_total,
      platform_fee |-> StoreDecimal(c.platform_fee, RateScale),
      seller_earnings |-> StoreDecimal(c.seller_earnings, RateScale)]

-----------------------------------------------------------------------------
(* Order builder: payment.views.checkout *)

\* The Product rows of the catalogue: p1 is a physical product of seller sA,
\* p2 a digital product of the platform.
ProductTable ==
  [p \in Products |->
     IF p = "p1"
     THEN [price |-> 5000, is_digital |-> FALSE, is_service |-> FALSE,
           quantity_in_stock |-> InitStock, service_seats |-> None,
           is_active |-> TRUE, seller |-> "sA"]
     ELSE [price |-> 1999, is_digital |-> TRUE, is_service |-> FALSE,
           quantity_in_stock |-> 0, service_seats |-> None,
           is_active |-> TRUE, seller |-> NoSeller]]

Carts == [Products -> 0..MaxQty]
EmptyCart == [p \in Products |-> 0]

IdleCheckout ==
  [pc |-> "idle", cart |-> EmptyCart, intent |-> "", snap |-> ProductTable,
   result |-> "none", created |-> 0]

is_physical(p) == (~p.is_digital) /\ (~p.is_service)

\* product_map and the loop over cart.items(): the lines of the products of
\* the cart that were found active, each with its quantized line total.
checkout_items(cart, snap) ==
  LET pids == SelectSeq(ProductSeq, LAMBDA p : cart[p] > 0 /\ snap[p].is_active)
  IN [i \in 1..Len(pids) |->
        [product |-> pids[i], quantity |-> cart[pids[i]],
         line_total |-> QuantizeHalfEven(snap[pids[i]].price * cart[pids[i]], 1)]]

checkout_insufficient(cart, snap) ==
  \E p \in Products :
     /\ cart[p] > 0 /\ snap[p].is_active
     /\ is_physical(snap[p])
     /\ snap[p].quantity_in_stock # None
     /\ cart[p] > snap[p].quantity_in_stock

checkout_subtotal(items) ==
  SumSeq([i \in 1..Len(items) |-> items[i].line_total])

checkout_tax(subtotal) == QuantizeHalfEven(subtotal * TaxRatePercent, 100)

checkout_shipping(items, snap, subtotal) ==
  LET has_physical_item ==
        \E i \in 1..Len(items) : is_physical(snap[items[i].product])
  IN IF subtotal = 0 THEN 0
     ELSE IF ~has_physical_item THEN 0
     ELSE IF subtotal >= FreeShippingThreshold THEN 0
     ELSE FlatShipping

\* A total that leaves the shipping out.
checkout_total_without_shipping(subtotal, tax, shipping) == subtotal + tax

\* total = subtotal + tax + shipping
checkout_total(subtotal, tax, shipping) == subtotal + tax + shipping

\* Order.objects.create(user, status="paid", subtotal, tax, shipping, total):
\* payment_intent_id is not passed and takes the field default "".
\* placed_for is a history field, not a column: the payment the request was
\* made for.
checkout_order(items, snap, intent) ==
  LET subtotal == checkout_subtotal(items)
      tax == checkout_tax(subtotal)
      shipping == checkout_shipping(items, snap, subtotal)
  IN [status |-> "paid", subtotal |-> subtotal, tax |-> tax,
      shipping |-> shipping, total |-> checkout_total(subtotal, tax, shipping),
      payment_intent_id |-> "", created_at |-> now, placed_for |-> intent]

\* line_price = (item["line_total"] / qty).quantize(Decimal("0.01")), then
\* OrderItem.objects.create(order, product, quantity, price=line_price).
checkout_order_items(items, oid) ==
  [i \in 1..Len(items) |->
     OrderItem_save([order |-> oid, product |-> items[i].product,
                     quantity |-> items[i].quantity,
                     price |-> QuantizeHalfEven(items[i].line_total, items[i].quantity),
                     seller |-> NoSeller])]

\* The inventory step of the loop: new value = the value read when the
\* request loaded the product, minus qty, floored at 0, written with
\* product.save(update_fields=[...]).
checkout_new_stock(current_stock, qty) ==
  IF current_stock - qty < 0 THEN 0 ELSE current_stock - qty

checkout_products(cart, snap) ==
  [p \in Products |->
     IF ~(cart[p] > 0 /\ snap[p].is_active) \/ snap[p].is_digital
     THEN product[p]
     ELSE IF snap[p].is_service
     THEN IF snap[p].service_seats # None
          THEN [product[p] EXCEPT
                  !.service_seats = checkout_new_stock(snap[p].service_seats, cart[p])]
          ELSE product[p]
     ELSE IF snap[p].quantity_in_stock # None
     THEN [product[p] EXCEPT
             !.quantity_in_stock = checkout_new_stock(snap[p].quantity_in_stock, cart[p])]
     ELSE product[p]]

\* The unique index on Order.payment_intent_id refuses a second "".
order_insert_conflicts(row) ==
  /\ row.payment_intent_id # NULL
  /\ \E o \in 1..Len(order) : order[o].payment_intent_id = row.payment_intent_id

\* cart = request.session["cart"]; products = Product.objects.filter(...):
\* the request reads the cart and the product rows.  Nothing is locked.
checkout_load(w, cart, intent) ==
  /\ co[w].pc = "idle"
  /\ Len(order) + Cardinality({v \in Workers : co[v].pc = "loaded"}) < MaxOrders
  /\ co' = [co EXCEPT ![w] = [pc |-> "loaded", cart |-> cart, intent |-> intent,
                               snap |-> product, result |-> "none", created |-> 0]]
  /\ UNCHANGED <<product, order, item>>

\* The rest of the POST request.  The transaction.atomic() block writes
\* without reading, so it is one step.
checkout_place(w) ==
  /\ co[w].pc = "loaded"
  /\ LET c == co[w]
         items == checkout_items(c.cart, c.snap)
         row == checkout_order(items, c.snap, c.intent)
         oid == Len(order) + 1
         done == [IdleCheckout EXCEPT !.pc = "done", !.intent = c.intent]
     IN IF c.cart = EmptyCart
        THEN /\ co' = [co EXCEPT ![w] = [done EXCEPT !.result = "empty"]]
             /\ UNCHANGED <<product, order, item>>
        ELSE IF checkout_insufficient(c.cart, c.snap)
        THEN /\ co' = [co EXCEPT ![w] = [done EXCEPT !.result = "insufficient_stock"]]
             /\ UNCHANGED <<product, order, item>>
        ELSE IF order_insert_conflicts(row)
        THEN \* IntegrityError: the block rolls back, the request ends in a 500
             /\ co' = [co EXCEPT ![w] = [done EXCEPT !.result = "error_500"]]
             /\ UNCHANGED <<product, order, item>>
        ELSE /\ order' = Append(order, row)
             /\ item' = item \o checkout_order_items(items, oid)
             /\ product' = checkout_products(c.cart, c.snap)
             /\ co' = [co EXCEPT ![w] = [done EXCEPT !.result = "success",
                                                     !.created = oid]]

checkout_return(w) ==
  /\ co[w].pc = "done"
  /\ co' = [co EXCEPT ![w] = IdleCheckout]
  /\ UNCHANGED <<product, order, item>>

\* The Order change form of the admin site saved with payment_intent_id set
\* to `intent`: a blank field is stored as NULL, a value another order holds
\* is refused by the form's unique check.
admin_change_order(o, intent) ==
  /\ o \in 1..Len(order)
  /\ order[o].payment_intent_id # intent
  /\ intent # NULL =>
       \A q \in 1..Len(order) : q # o => order[q].payment_intent_id # intent
  /\ order' = [order EXCEPT ![o].payment_intent_id = intent]
  /\ UNCHANGED <<product, item, co>>

-----------------------------------------------------------------------------
(* Refund rows, transactions and the payment gateway *)

NoRefund ==
  [order |-> 0, order_item |-> None, seller |-> NoSeller, amount |-> 0,
   status |-> "absent", stripe_refund_id |-> None]
NoWrite == [NoRefund EXCEPT !.status = "unwritten"]

\* A request in flight: its position, the Refund object it holds in memory
\* (obj, with its id rid), and the writes of its open transaction (tx: the
\* Refund rows, ordw: the Order.status values), which no other request sees
\* and which lock the rows until the transaction ends.
IdleRefund ==
  [pc |-> "idle", op |-> "none", rid |-> 0, obj |-> NoRefund, todo |-> <<>>,
   auto |-> FALSE, gw |-> "none", total_refunded |-> 0, result |-> "none",
   tx |-> [r \in RefundIds |-> NoWrite], ordw |-> [o \in OrderIds |-> NULL]]

Written(w, r) == rw[w].tx[r].status # "unwritten"
RowLocked(w, r) == \E v \in Workers \ {w} : Written(v, r)
OrderLocked(w, o) == \E v \in Workers \ {w} : rw[v].ordw[o] # NULL

\* What a query of worker record c sees under READ COMMITTED: the committed
\* rows, and the rows its own transaction wrote.
RefundView(c) ==
  [r \in RefundIds |-> IF c.tx[r].status # "unwritten" THEN c.tx[r] ELSE refund[r]]

\* The stores after the transaction of worker record c committed.
CommitOrders(c) ==
  [o \in 1..Len(order) |->
     IF c.ordw[o] # NULL THEN [order[o] EXCEPT !.status = c.ordw[o]] ELSE order[o]]

EndTx(c, result) ==
  [IdleRefund EXCEPT !.pc = "done", !.op = c.op, !.rid = c.rid, !.gw = c.gw,
                     !.result = result]

\* `not order.payment_intent_id`
has_payment_intent(o) == order[o].payment_intent_id \notin {"", NULL}

\* services.stripe_refunds.create_stripe_refund: "ok" returns the refund id,
\* "stripe_error" is StripeRefundError (every failure of the Stripe call, a
\* time-out included), "not_configured" is ImproperlyConfigured, raised
\* before Stripe is called.
GatewayOutcomes == {"ok", "stripe_error", "not_configured"}
create_stripe_refund_calls(r, outcome) ==
  IF outcome = "not_configured" THEN gwCalls
  ELSE [gwCalls EXCEPT ![r] = gwCalls[r] + 1]

\* Refund.objects.filter(order=order, status=SUCCEEDED).aggregate(Sum("amount"))
total_refunded_of(view, o) ==
  SumSeq([r \in RefundIds |->
            IF view[r].order = o /\ view[r].status = "succeeded"
            THEN view[r].amount ELSE 0])

refund_order_status(total_refunded, o) ==
  IF total_refunded >= order[o].total THEN "refunded" ELSE "partially_refunded"

-----------------------------------------------------------------------------
(* services.refund_policy *)

is_within_refund_window(o, days) == now <= order[o].created_at + days

has_active_dispute(o) == order[o].status = "disputed"

\* The policy without its refund window.
can_seller_auto_refund_any_time(o, seller, is_partial) ==
  IF has_active_dispute(o) \/ order[o].status = "disputed" THEN FALSE
  ELSE IF is_partial THEN FALSE
  ELSE TRUE

can_seller_auto_refund(o, seller, is_partial) ==
  IF has_active_dispute(o) \/ order[o].status = "disputed" THEN FALSE
  ELSE IF ~is_within_refund_window(o, DEFAULT_REFUND_WINDOW_DAYS) THEN FALSE
  ELSE IF is_partial THEN FALSE
  ELSE TRUE

-----------------------------------------------------------------------------
(* sellers.views.refund_order_item *)

\* A request that will still insert a Refund row.
Creating(w) == rw[w].pc = "s_create"
RoomForRefund ==
  nextRefund + Cardinality({v \in Workers : Creating(v)}) <= MaxRefunds

existing_refunds_exist(o, i) ==
  \E r \in RefundIds :
     /\ refund[r].order = o /\ refund[r].order_item = i
     /\ refund[r].status \in {"succeeded", "processing"}

\* The checks before the transaction without the check of the item's owner.
refund_order_item_begin_any_seller(w, seller, i) ==
  /\ rw[w].pc = "idle"
  /\ i \in 1..Len(item)
  /\ RoomForRefund
  /\ LET o == item[i].order
         c == [IdleRefund EXCEPT !.op = "refund_order_item"]
     IN rw' = [rw EXCEPT ![w] =
          IF ~has_payment_intent(o)
          THEN EndTx(c, "missing_payment_400")
          ELSE IF existing_refunds_exist(o, i)
          THEN EndTx(c, "already_refunded_400")
          ELSE [c EXCEPT !.pc = "s_create",
                         !.auto = can_seller_auto_refund(o, seller, FALSE),
                         !.obj = [order |-> o, order_item |-> i, seller |-> seller,
                                  amount |-> item[i].line_total, status |-> "new",
                                  stripe_refund_id |-> None]]]
  /\ UNCHANGED <<refund, nextRefund, gwCalls, now, order>>

\* The checks before the transaction, and the policy decision.
refund_order_item_begin(w, seller, i) ==
  /\ rw[w].pc = "idle"
  /\ i \in 1..Len(item)
  /\ RoomForRefund
  /\ LET o == item[i].order
         c == [IdleRefund EXCEPT !.op = "refund_order_item"]
     IN rw' = [rw EXCEPT ![w] =
          IF item[i].seller # seller
          THEN EndTx(c, "forbidden_403")
          ELSE IF ~has_payment_intent(o)
          THEN EndTx(c, "missing_payment_400")
          ELSE IF existing_refunds_exist(o, i)
          THEN EndTx(c, "already_refunded_400")
          ELSE [c EXCEPT !.pc = "s_create",
                         !.auto = can_seller_auto_refund(o, seller, FALSE),
                         !.obj = [order |-> o, order_item |-> i, seller |-> seller,
                                  amount |-> item[i].line_total, status |-> "new",
                                  stripe_refund_id |-> None]]]
  /\ UNCHANGED <<refund, nextRefund, gwCalls, now, order>>

\* transaction.atomic(): Refund.objects.create(...); without auto-refund the
\* view returns here and the block commits.  With auto-refund the row is
\* created APPROVED and saved PROCESSING, both inside the open transaction.
refund_order_item_create(w) ==
  /\ rw[w].pc = "s_create"
  /\ nextRefund <= MaxRefunds
  /\ LET c == rw[w]
         rid == nextRefund
         requested == [c.obj EXCEPT !.status = "requested"]
         processing == [c.obj EXCEPT !.status = "processing"]
     IN IF ~c.auto
        THEN /\ refund' = [refund EXCEPT ![rid] = requested]
             /\ rw' = [rw EXCEPT ![w] = EndTx([c EXCEPT !.rid = rid], "requested")]
        ELSE /\ refund' = refund
             /\ rw' = [rw EXCEPT ![w] =
                         [c EXCEPT !.pc = "s_gateway", !.rid = rid, !.obj = processing,
                                   !.tx[rid] = processing]]
  /\ nextRefund' = nextRefund + 1
  /\ UNCHANGED <<gwCalls, now, order>>

\* The gateway step of the seller's request saving only the status.
refund_order_item_gateway_without_id(w, outcome) ==
  /\ rw[w].pc = "s_gateway"
  /\ gwCalls[rw[w].rid] < MaxCalls
  /\ gwCalls' = create_stripe_refund_calls(rw[w].rid, outcome)
  /\ LET c == [rw[w] EXCEPT !.gw = outcome]
         row == [c.tx[c.rid] EXCEPT !.status = "succeeded"]
         d == [c EXCEPT !.obj = row, !.tx[c.rid] = row]
     IN rw' = [rw EXCEPT ![w] =
          IF outcome = "ok"
          THEN [d EXCEPT !.pc = "s_order",
                         !.total_refunded = total_refunded_of(RefundView(d), c.obj.order)]
          ELSE EndTx(c, "error_500")]
  /\ UNCHANGED <<refund, nextRefund, now, order>>

\* create_stripe_refund(...) inside the atomic block.  On success the refund
\* id and SUCCEEDED are saved and the succeeded refunds of the order summed.
\* An exception leaves the block, which rolls the INSERT back.  The
\* StripeRefundError handler then saves status FAILED with update_fields on a
\* row that no longer exists: the UPDATE matches no row, Django raises
\* DatabaseError and the request ends in a 500.  The handler of any other
\* exception saves nothing.
refund_order_item_gateway(w, outcome) ==
  /\ rw[w].pc = "s_gateway"
  /\ gwCalls[rw[w].rid] < MaxCalls
  /\ gwCalls' = create_stripe_refund_calls(rw[w].rid, outcome)
  /\ LET c == [rw[w] EXCEPT !.gw = outcome]
         row == [c.tx[c.rid] EXCEPT !.stripe_refund_id = gwCalls'[c.rid],
                                    !.status = "succeeded"]
         d == [c EXCEPT !.obj = row, !.tx[c.rid] = row]
     IN rw' = [rw EXCEPT ![w] =
          IF outcome = "ok"
          THEN [d EXCEPT !.pc = "s_order",
                         !.total_refunded = total_refunded_of(RefundView(d), c.obj.order)]
          ELSE EndTx(c, "error_500")]
  /\ UNCHANGED <<refund, nextRefund, now, order>>

\* order.status = ...; order.save(update_fields=["status"]); the block commits.
refund_order_item_order(w) ==
  /\ rw[w].pc = "s_order"
  /\ ~OrderLocked(w, rw[w].obj.order)
  /\ LET c == rw[w]
         o == c.obj.order
         d == [c EXCEPT !.ordw[o] = refund_order_status(c.total_refunded, o)]
     IN /\ refund' = RefundView(d)
        /\ order' = CommitOrders(d)
        /\ rw' = [rw EXCEPT ![w] = EndTx(d, "succeeded")]
  /\ UNCHANGED <<nextRefund, gwCalls, now>>

-----------------------------------------------------------------------------
(* Admin approval: OrderAdmin.approve_refund, admin_approve_refund and      *)
(* RefundAdmin.approve_selected_refunds.  Each runs in one transaction      *)
(* (@transaction.atomic) that commits when the view returns.                *)

ApproveOne == {"approve_refund", "admin_approve_refund"}

\* Meta.ordering = ["-created_at"]: the newest row first.
NewestFirst == [k \in 1..MaxRefunds |-> MaxRefunds + 1 - k]

\* get_object_or_404(Refund, id=..., status=REQUESTED) and the check of the
\* payment reference; for the bulk action queryset.filter(status=REQUESTED).
\* The row is read, not locked.
approve_begin(w, op, sel) ==
  /\ rw[w].pc = "idle"
  /\ LET c == [IdleRefund EXCEPT !.op = op]
         todo == SelectSeq(NewestFirst,
                           LAMBDA r : r \in sel /\ refund[r].status = "requested")
     IN rw' = [rw EXCEPT ![w] =
          IF todo = <<>>
          THEN EndTx(c, IF op \in ApproveOne THEN "not_found_404" ELSE "nothing")
          ELSE IF op \in ApproveOne /\ ~has_payment_intent(refund[Head(todo)].order)
          THEN EndTx(c, "missing_payment")
          ELSE [c EXCEPT !.pc = "a_processing", !.todo = todo]]
  /\ UNCHANGED <<refund, nextRefund, gwCalls, now, order>>

\* The next Refund of the queue; when it was the last, the view returns and
\* the transaction commits.
approve_next(d, result) ==
  IF Len(d.todo) <= 1
  THEN EndTx(d, result)
  ELSE [d EXCEPT !.pc = "a_processing", !.todo = Tail(d.todo)]
approve_next_refunds(d) == IF Len(d.todo) <= 1 THEN RefundView(d) ELSE refund
approve_next_orders(d) == IF Len(d.todo) <= 1 THEN CommitOrders(d) ELSE order

\* The bulk action skips (continue) a Refund whose order has no payment
\* reference.
approve_skips(c) ==
  /\ c.op = "approve_selected_refunds"
  /\ ~has_payment_intent(refund[Head(c.todo)].order)

\* refund.status = PROCESSING; refund.save(update_fields=["status"]): an
\* UPDATE of the status column alone, which waits for the row lock and then
\* writes whatever the row holds by then.
approve_processing(w) ==
  /\ rw[w].pc = "a_processing"
  /\ ~(~approve_skips(rw[w]) /\ RowLocked(w, Head(rw[w].todo)))
  /\ LET c == rw[w]
         r == Head(c.todo)
         d == [c EXCEPT !.pc = "a_gateway", !.rid = r,
                        !.obj = [refund[r] EXCEPT !.status = "processing",
                                                  !.stripe_refund_id = None],
                        !.tx[r] = [RefundView(c)[r] EXCEPT !.status = "processing"]]
     IN IF approve_skips(c)
        THEN /\ rw' = [rw EXCEPT ![w] = approve_next(c, "processed")]
             /\ refund' = approve_next_refunds(c)
             /\ order' = approve_next_orders(c)
        ELSE /\ rw' = [rw EXCEPT ![w] = d]
             /\ UNCHANGED <<refund, order>>
  /\ UNCHANGED <<nextRefund, gwCalls, now>>

\* create_stripe_refund(...), called with the transaction open.  After it,
\* stripe_refund_id and SUCCEEDED are saved and the succeeded refunds of the
\* order are summed; or, in both except branches, FAILED is saved.
approve_gateway(w, outcome) ==
  /\ rw[w].pc = "a_gateway"
  /\ gwCalls[rw[w].rid] < MaxCalls
  /\ gwCalls' = create_stripe_refund_calls(rw[w].rid, outcome)
  /\ LET c == [rw[w] EXCEPT !.gw = outcome]
         r == c.rid
         ok == [c EXCEPT !.obj.stripe_refund_id = gwCalls'[r],
                         !.obj.status = "succeeded",
                         !.tx[r].stripe_refund_id = gwCalls'[r],
                         !.tx[r].status = "succeeded"]
         ko == [c EXCEPT !.obj.status = "failed", !.tx[r].status = "failed"]
     IN IF outcome = "ok"
        THEN /\ rw' = [rw EXCEPT ![w] =
                  [ok EXCEPT !.pc = "a_order",
                             !.total_refunded =
                                total_refunded_of(RefundView(ok), c.obj.order)]]
             /\ UNCHANGED <<refund, order>>
        ELSE /\ rw' = [rw EXCEPT ![w] = approve_next(ko, "failed")]
             /\ refund' = approve_next_refunds(ko)
             /\ order' = approve_next_orders(ko)
  /\ UNCHANGED <<nextRefund, now>>

\* order.status = ...; order.save(update_fields=["status"])
approve_order(w) ==
  /\ rw[w].pc = "a_order"
  /\ ~OrderLocked(w, rw[w].obj.order)
  /\ LET c == rw[w]
         o == c.obj.order
         d == [c EXCEPT !.ordw[o] = refund_order_status(c.total_refunded, o)]
     IN /\ rw' = [rw EXCEPT ![w] = approve_next(d, "succeeded")]
        /\ refund' = approve_next_refunds(d)
        /\ order' = approve_next_orders(d)
  /\ UNCHANGED <<nextRefund, gwCalls, now>>

\* Two transactions that each wait for a row the other has locked: the store
\* ends the wait of one with an error.  The save in the except branch fails
\* in the aborted transaction, the exception leaves the view and the
\* transaction is rolled back.
WaitsFor(w, v) ==
  IF rw[w].pc = "a_processing"
  THEN ~approve_skips(rw[w]) /\ Written(v, Head(rw[w].todo))
  ELSE rw[w].pc = "a_order" /\ rw[v].ordw[rw[w].obj.order] # NULL

deadlock_abort(w) ==
  /\ \E v \in Workers \ {w} : WaitsFor(w, v) /\ WaitsFor(v, w)
  /\ rw' = [rw EXCEPT ![w] = EndTx(rw[w], "error_500")]
  /\ UNCHANGED <<refund, nextRefund, gwCalls, now, order>>

-----------------------------------------------------------------------------
(* Admin rejection *)

RejectOne == {"reject_refund", "admin_reject_refund"}

reject_begin(w, op, r) ==
  /\ rw[w].pc = "idle"
  /\ rw' = [rw EXCEPT ![w] =
       IF refund[r].status # "requested"
       THEN EndTx([IdleRefund EXCEPT !.op = op], "not_found_404")
       ELSE [IdleRefund EXCEPT !.op = op, !.pc = "j_save", !.rid = r,
                               !.obj = refund[r]]]
  /\ UNCHANGED <<refund, nextRefund, gwCalls, now, order>>

\* refund.status = REJECTED; refund.save(update_fields=["status"]); commit
reject_save(w) ==
  /\ rw[w].pc = "j_save"
  /\ ~RowLocked(w, rw[w].rid)
  /\ refund' = [refund EXCEPT ![rw[w].rid].status = "rejected"]
  /\ rw' = [rw EXCEPT ![w] = EndTx(rw[w], "rejected")]
  /\ UNCHANGED <<nextRefund, gwCalls, now, order>>

\* queryset.filter(status=REQUESTED).update(status=REJECTED): one statement,
\* which waits for locked rows and tests the status of the row it then finds.
reject_selected_refunds(sel) ==
  /\ \A r \in sel : \A w \in Workers : ~Written(w, r)
  /\ \E r \in sel : refund[r].status = "requested"
  /\ refund' = [r \in RefundIds |->
                  IF r \in sel /\ refund[r].status = "requested"
                  THEN [refund[r] EXCEPT !.status = "rejected"] ELSE refund[r]]
  /\ UNCHANGED <<rw, nextRefund, gwCalls, now, order>>

-----------------------------------------------------------------------------
(* OrderAdmin.force_refund: no transaction, every save commits on its own *)

\* The amounts the admin types into the form (the line total of the second
\* order item, the total of the order) and the order items the admin picks;
\* the form checks neither against the order or its refunds.
ForceAmounts == {item[2].line_total, order[1].total}
ForceItems == {None, 2}

\* form.save(commit=False); refund.order = order; status = APPROVED;
\* refund.save(); with a payment reference on the order, status = PROCESSING
\* is saved next.  The seller field is taken to be the item's seller.
force_refund_create(w, o, i, amount) ==
  /\ rw[w].pc = "idle"
  /\ RoomForRefund
  /\ o \in 1..Len(order)
  /\ i # None => i \in 1..Len(item)
  /\ LET rid == nextRefund
         row == [order |-> o, order_item |-> i,
                 seller |-> IF i = None THEN "sA" ELSE item[i].seller,
                 amount |-> amount,
                 status |-> IF has_payment_intent(o) THEN "processing" ELSE "approved",
                 stripe_refund_id |-> None]
         c == [IdleRefund EXCEPT !.op = "force_refund", !.rid = rid, !.obj = row]
     IN /\ refund' = [refund EXCEPT ![rid] = row]
        /\ rw' = [rw EXCEPT ![w] =
             IF has_payment_intent(o)
             THEN [c EXCEPT !.pc = "f_gateway"]
             ELSE EndTx(c, "created_not_processed")]
  /\ nextRefund' = nextRefund + 1
  /\ UNCHANGED <<gwCalls, now, order>>

\* create_stripe_refund(..., reason="admin_override"); then SUCCEEDED and the
\* refund id are saved and the succeeded refunds summed; or, in the except
\* branch, FAILED is saved.
force_refund_gateway(w, outcome) ==
  /\ rw[w].pc = "f_gateway"
  /\ ~RowLocked(w, rw[w].rid)
  /\ gwCalls[rw[w].rid] < MaxCalls
  /\ gwCalls' = create_stripe_refund_calls(rw[w].rid, outcome)
  /\ LET c == [rw[w] EXCEPT !.gw = outcome]
         r == c.rid
     IN IF outcome = "ok"
        THEN /\ refund' = [refund EXCEPT ![r].stripe_refund_id = gwCalls'[r],
                                         ![r].status = "succeeded"]
             /\ rw' = [rw EXCEPT ![w] =
                  [c EXCEPT !.pc = "f_order",
                            !.obj = refund'[r],
                            !.total_refunded = total_refunded_of(refund', c.obj.order)]]
        ELSE /\ refund' = [refund EXCEPT ![r].status = "failed"]
             /\ rw' = [rw EXCEPT ![w] = EndTx(c, "failed")]
  /\ UNCHANGED <<nextRefund, now, order>>

\* order.status = ...; order.save()
force_refund_order(w) ==
  /\ rw[w].pc = "f_order"
  /\ ~OrderLocked(w, rw[w].obj.order)
  /\ order' = [order EXCEPT ![rw[w].obj.order].status =
                  refund_order_status(rw[w].total_refunded, rw[w].obj.order)]
  /\ rw' = [rw EXCEPT ![w] = EndTx(rw[w], "succeeded")]
  /\ UNCHANGED <<refund, nextRefund, gwCalls, now>>

-----------------------------------------------------------------------------
\* The response is sent; the worker takes the next request.
refund_return(w) ==
  /\ rw[w].pc = "done"
  /\ rw' = [rw EXCEPT ![w] = IdleRefund]
  /\ UNCHANGED <<refund, nextRefund, gwCalls, now, order>>

\* A day passes.
Tick ==
  /\ now < MaxDay
  /\ now' = now + 1
  /\ UNCHANGED <<refund, nextRefund, rw, gwCalls, order>>

-----------------------------------------------------------------------------
(* products.inventory *)

MaxLog == 2

ChangeTypes == {"ADJUSTMENT"}

\* Sets the stock to `quantity` and writes one log row whose delta is the
\* quantity; both in one transaction.
set_beginning_balance(p, quantity) ==
  /\ Len(inventoryLog) < MaxLog
  /\ product' = [product EXCEPT ![p].quantity_in_stock = quantity]
  /\ inventoryLog' = Append(inventoryLog,
        [product |-> p, change_type |-> "INITIAL", delta |-> quantity, order |-> None])
  /\ UNCHANGED <<order, item, co>>

\* UPDATE ... SET quantity_in_stock = GREATEST(0, quantity_in_stock + delta)
\* and one log row that holds the delta that was asked for.
adjust_inventory(p, delta, change_type) ==
  /\ Len(inventoryLog) < MaxLog
  /\ product' = [product EXCEPT ![p].quantity_in_stock =
        IF product[p].quantity_in_stock + delta < 0 THEN 0
        ELSE product[p].quantity_in_stock + delta]
  /\ inventoryLog' = Append(inventoryLog,
        [product |-> p, change_type |-> change_type, delta |-> delta, order |-> None])
  /\ UNCHANGED <<order, item, co>>

-----------------------------------------------------------------------------
(* sellers.views.dashboard: available and pending earnings *)

DefaultHoldDays == 7

NoDash ==
  [rendered |-> FALSE, seller |-> NoSeller, available_earnings |-> 0,
   pending_earnings |-> 0, next_payout_date |-> None]

NoExport ==
  [rendered |-> FALSE, format |-> "none", seller |-> NoSeller, date_from |-> 0,
   date_to |-> 0, transactions |-> <<>>, ending_balance |-> 0]

LateIdle ==
  /\ payoutHold = [s \in Sellers |-> DefaultHoldDays]
  /\ dash = NoDash
  /\ userProfile = <<>>
  /\ exported = NoExport

\* Sum("seller_earnings") over the rows, 0.00 for none.
RECURSIVE SumEarnings(_)
SumEarnings(rows) ==
  IF rows = <<>> THEN 0 ELSE Head(rows).seller_earnings + SumEarnings(Tail(rows))

\* order_by("order__created_at").first(): the date of the oldest row.
OldestDate(rows) ==
  CHOOSE d \in {rows[k].date : k \in 1..Len(rows)} :
     \A k \in 1..Len(rows) : d <= rows[k].date

\* hold_days = 7, fixed for all sellers; cutoff_date = now - hold_days;
\* available: order__created_at < cutoff_date, pending: >= cutoff_date.
dashboard(seller) ==
  LET hold_days == 7
      cutoff_date == now - hold_days
      order_items == SelectSeq(ledgerItems, LAMBDA e : e.seller = seller)
      available_items == SelectSeq(order_items, LAMBDA e : e.date < cutoff_date)
      pending_items == SelectSeq(order_items, LAMBDA e : e.date >= cutoff_date)
  IN /\ dash' = [rendered |-> TRUE, seller |-> seller,
                 available_earnings |-> SumEarnings(available_items),
                 pending_earnings |-> SumEarnings(pending_items),
                 next_payout_date |->
                    IF pending_items = <<>> THEN None
                    ELSE OldestDate(pending_items) + hold_days]
     /\ UNCHANGED <<payoutHold, userProfile, exported>>

-----------------------------------------------------------------------------
(* payment.views.checkout: the totals of a request *)

DefaultTaxFlags == [p \in Products |-> [charge_gst |-> TRUE, charge_pst |-> FALSE]]

NoQuote ==
  [rendered |-> FALSE, cart |-> EmptyCart, pickup |-> FALSE, items |-> <<>>,
   insufficient |-> FALSE, subtotal |-> 0, tax |-> 0, shipping |-> 0, total |-> 0]

\* The view up to `total = ...` for the cart of the session.  `pickup` is
\* what the customer selected; the view does not read it, and it reads
\* neither charge_gst nor charge_pst of the products.
checkout_quote(cart, pickup) ==
  LET items == checkout_items(cart, product)
      subtotal == checkout_subtotal(items)
      tax == checkout_tax(subtotal)
      shipping == checkout_shipping(items, product, subtotal)
  IN /\ quote' = [rendered |-> TRUE, cart |-> cart, pickup |-> pickup,
                  items |-> items,
                  insufficient |-> checkout_insufficient(cart, product),
                  subtotal |-> subtotal, tax |-> tax, shipping |-> shipping,
                  total |-> checkout_total(subtotal, tax, shipping)]
     /\ UNCHANGED <<aw, adjustCalls, taxFlags, lateVars>>

-----------------------------------------------------------------------------
(* adjust_inventory called by concurrent workers.  Each call is one
   transaction (@transaction.atomic): the UPDATE takes the row lock of the
   product and computes from the row as it is stored at that moment; the
   lock is held, and the new value invisible to others, until the commit. *)

MaxAdjust == 3

IdleAdjust == [pc |-> "idle", product |-> "p1", delta |-> 0, written |-> 0]

MoreIdle ==
  /\ aw = [w \in Workers |-> IdleAdjust]
  /\ adjustCalls = <<>>
  /\ taxFlags = DefaultTaxFlags
  /\ quote = NoQuote
  /\ LateIdle

\* A store without row locks.
adjust_row_never_locked(w, p) == FALSE

\* Another worker's transaction holds the row lock of product p.
adjust_row_locked(w, p) ==
  \E v \in Workers \ {w} : aw[v].pc = "updated" /\ aw[v].product = p

\* GREATEST(0, quantity_in_stock + delta)
Greatest0(n) == IF n < 0 THEN 0 ELSE n

\* Product.objects.filter(pk=product.pk).update(quantity_in_stock=
\* Greatest(0, F("quantity_in_stock") + delta)): waits for the row lock.
adjust_inventory_update(w, p, delta) ==
  /\ aw[w].pc = "idle"
  /\ Len(adjustCalls) + Cardinality({v \in Workers : aw[v].pc = "updated"}) < MaxAdjust
  /\ ~adjust_row_locked(w, p)
  /\ aw' = [aw EXCEPT ![w] =
        [pc |-> "updated", product |-> p, delta |-> delta,
         written |-> Greatest0(product[p].quantity_in_stock + delta)]]
  /\ UNCHANGED <<product, inventoryLog, adjustCalls, taxFlags, quote, lateVars>>

\* product.refresh_from_db(); InventoryLog.objects.create(delta=delta, ...);
\* the function returns and the transaction commits.
adjust_inventory_commit(w) ==
  /\ aw[w].pc = "updated"
  /\ product' = [product EXCEPT ![aw[w].product].quantity_in_stock = aw[w].written]
  /\ inventoryLog' = Append(inventoryLog,
        [product |-> aw[w].product, change_type |-> "ADJUSTMENT",
         delta |-> aw[w].delta, order |-> None])
  /\ adjustCalls' = Append(adjustCalls, [product |-> aw[w].product, delta |-> aw[w].delta])
  /\ aw' = [aw EXCEPT ![w] = IdleAdjust]
  /\ UNCHANGED <<taxFlags, quote, lateVars>>

-----------------------------------------------------------------------------
(* Order.save and the shipping-address snapshot *)

OrderStatuses ==
  {"pending", "paid", "processing", "shipped", "delivered", "cancelled",
   "refunded", "partially_refunded", "disputed"}

ShipFields ==
  {"ship_name", "ship_phone", "ship_address1", "ship_address2",
   "ship_city", "ship_province", "ship_postal_code", "ship_country"}

\* What a snapshot field holds: the model's default "" or a text.
ShipValues == {"", "entered"}

BlankSnapshot == [f \in ShipFields |-> ""]

\* No Order row stored yet (pk is None).
NoShipOrder == [pk |-> None, status |-> "pending", ship |-> BlankSnapshot]

lock_shipping_if_fulfillment_started(self) ==
  self.status \in {"paid", "shipped", "delivered"}

\* Order.save(update_fields): the row stored by saving the instance `self`
\* over the stored row `old`.  With a pk and the lock, the instance's
\* snapshot fields are first overwritten with the stored ones; then the
\* fields named in update_fields are written.
Order_save(self, old, update_fields) ==
  LET kept == IF self.pk # None /\ lock_shipping_if_fulfillment_started(self)
                 /\ old.pk # None
              THEN [self EXCEPT !.ship = old.ship]
              ELSE self
  IN [pk |-> IF self.pk = None THEN 1 ELSE self.pk,
      status |-> IF "status" \in update_fields THEN kept.status ELSE old.status,
      ship |-> [f \in ShipFields |->
                  IF f \in update_fields THEN kept.ship[f] ELSE old.ship[f]]]

AllOrderFields == ShipFields \cup {"status"}

\* checkout: Order.objects.create(status="paid", ...), then the profile's
\* address is copied into the instance (ship_name is not) and saved with
\* update_fields naming the seven copied fields.
checkout_snapshot(profile) ==
  /\ shipOrder.pk = None
  /\ LET created == Order_save([NoShipOrder EXCEPT !.status = "paid"],
                               NoShipOrder, AllOrderFields)
         copied == [created EXCEPT !.ship =
                      [f \in ShipFields |->
                         IF f = "ship_name" THEN created.ship[f] ELSE profile[f]]]
     IN shipOrder' = Order_save(copied, created, ShipFields \ {"ship_name"})

\* The snapshots an editor can turn `ship` into: one field retyped, or all.
EditedSnapshots(ship) ==
  {ship} \cup {[ship EXCEPT ![f] = v] : f \in ShipFields, v \in ShipValues}
         \cup {[f \in ShipFields |-> v] : v \in ShipValues}

\* The Order change form of the admin site: status and the snapshot fields
\* are editable, and the form saves every field.
admin_save_order(status, ship) ==
  /\ shipOrder.pk # None
  /\ ship \in EditedSnapshots(shipOrder.ship)
  /\ shipOrder' = Order_save([shipOrder EXCEPT !.status = status, !.ship = ship],
                             shipOrder, AllOrderFields)

-----------------------------------------------------------------------------
(* sellers.views.earnings_statement *)

MaxLedgerDay == 3
MaxLedgerRows == 2

NoStatement == [transactions |-> <<>>, final_balance |-> 0, rendered |-> FALSE]

LedgerIdle ==
  /\ ledgerItems = <<>>
  /\ ledgerRefunds = <<>>
  /\ statement = NoStatement

AuxIdle == LedgerIdle /\ inventoryLog = <<>> /\ shipOrder = NoShipOrder /\ MoreIdle

\* order_by("order__created_at") / order_by("created_at") and
\* transactions.sort(key=lambda x: x["date"]): a stable sort by date.
RECURSIVE SortByDate(_, _)
SortByDate(rows, d) ==
  IF d > MaxLedgerDay THEN <<>>
  ELSE SelectSeq(rows, LAMBDA e : e.date = d) \o SortByDate(rows, d + 1)

\* The loop over order_items: per item the earnings entry and, when the item
\* paid a platform fee, the commission entry, each with the running balance
\* at the moment it is appended.
RECURSIVE statement_order_entries(_, _)
statement_order_entries(its, running_balance) ==
  IF its = <<>> THEN <<>>
  ELSE LET it == Head(its)
           b1 == running_balance + it.seller_earnings
           b2 == IF it.platform_fee > 0 THEN b1 - it.platform_fee ELSE b1
           earned == [date |-> it.date, amount |-> it.seller_earnings,
                      balance |-> b1, type |-> "order"]
           fee == [date |-> it.date, amount |-> 0 - it.platform_fee,
                   balance |-> b2, type |-> "commission"]
       IN (IF it.platform_fee > 0 THEN <<earned, fee>> ELSE <<earned>>)
             \o statement_order_entries(Tail(its), b2)

\* commission_reversal = (refund.amount / original_amount) * platform_fee
\* (exact for the amounts the rows hold: the full line or an even half).
commission_reversal(rf) ==
  (rf.amount * ledgerItems[rf.order_item].platform_fee)
     \div ledgerItems[rf.order_item].line_total

\* The loop over refunds: the refund entry and, when the refunded item paid
\* a platform fee, the commission reversal.
RECURSIVE statement_refund_entries(_, _)
statement_refund_entries(rfs, running_balance) ==
  IF rfs = <<>> THEN <<>>
  ELSE LET rf == Head(rfs)
           reverses == /\ rf.order_item # None
                       /\ ledgerItems[rf.order_item].platform_fee > 0
                       /\ ledgerItems[rf.order_item].line_total > 0
           b1 == running_balance - rf.amount
           b2 == IF reverses THEN b1 + commission_reversal(rf) ELSE b1
           refunded == [date |-> rf.date, amount |-> 0 - rf.amount,
                        balance |-> b1, type |-> "refund"]
           reversal == [date |-> rf.date, amount |-> commission_reversal(rf),
                        balance |-> b2, type |-> "commission_reversal"]
       IN (IF reverses THEN <<refunded, reversal>> ELSE <<refunded>>)
             \o statement_refund_entries(Tail(rfs), b2)

\* The running balance after the entries were appended.
statement_balance(entries, running_balance) ==
  IF entries = <<>> THEN running_balance ELSE entries[Len(entries)].balance

\* The statement of `seller` for the days date_from..date_to: the
\* transactions as sorted at the end, and the final balance.
statement_of(seller, date_from, date_to) ==
  LET InWindow(e) == e.seller = seller /\ date_from <= e.date /\ e.date <= date_to
      order_items == SortByDate(SelectSeq(ledgerItems, InWindow), 1)
      refunds == SortByDate(SelectSeq(ledgerRefunds, InWindow), 1)
      from_orders == statement_order_entries(order_items, 0)
      after_orders == statement_balance(from_orders, 0)
      from_refunds == statement_refund_entries(refunds, after_orders)
  IN [transactions |-> SortByDate(from_orders \o from_refunds, 1),
      final_balance |-> statement_balance(from_refunds, after_orders),
      rendered |-> TRUE]

earnings_statement(seller, date_from, date_to) ==
  /\ statement' = statement_of(seller, date_from, date_to)
  /\ UNCHANGED <<ledgerItems, ledgerRefunds>>

\* Refund.Meta.ordering = ["-created_at"]: the order of a refund queryset
\* that has no order_by of its own.
RECURSIVE SortByDateDesc(_, _)
SortByDateDesc(rows, d) ==
  IF d < 1 THEN <<>>
  ELSE SelectSeq(rows, LAMBDA e : e.date = d) \o SortByDateDesc(rows, d - 1)

\* The loop over order_items of the exports: one row per item, the earnings
\* in the "in" column.
RECURSIVE export_order_rows(_, _)
export_order_rows(its, running_balance) ==
  IF its = <<>> THEN <<>>
  ELSE LET it == Head(its)
           b == running_balance + it.seller_earnings
       IN <<[date |-> it.date, in |-> it.seller_earnings, out |-> 0,
             balance |-> b]>> \o export_order_rows(Tail(its), b)

\* The loop over refunds of the exports: one row per refund, the refunded
\* amount in the "out" column.
RECURSIVE export_refund_rows(_, _)
export_refund_rows(rfs, running_balance) ==
  IF rfs = <<>> THEN <<>>
  ELSE LET rf == Head(rfs)
           b == running_balance - rf.amount
       IN <<[date |-> rf.date, in |-> 0, out |-> rf.amount,
             balance |-> b]>> \o export_refund_rows(Tail(rfs), b)

\* The exported statement of `seller` for the days date_from..date_to: the
\* rows as sorted at the end, and the ending balance it reports, which is the
\* balance column of its last row (the export has no separate total).
export_statement_of(format, seller, date_from, date_to) ==
  LET InWindow(e) == e.seller = seller /\ date_from <= e.date /\ e.date <= date_to
      order_items == SortByDate(SelectSeq(ledgerItems, InWindow), 1)
      refunds == SortByDateDesc(
                    SelectSeq(ledgerRefunds,
                              LAMBDA e : InWindow(e) /\ e.status = "succeeded"),
                    MaxLedgerDay)
      from_orders == export_order_rows(order_items, 0)
      after_orders == statement_balance(from_orders, 0)
      transactions == SortByDate(from_orders \o export_refund_rows(refunds, after_orders), 1)
  IN [rendered |-> TRUE, format |-> format, seller |-> seller,
      date_from |-> date_from, date_to |-> date_to,
      transactions |-> transactions,
      ending_balance |-> statement_balance(transactions, 0)]

export_statement_csv(seller, start_date, end_date) ==
  /\ exported' = export_statement_of("csv", seller, start_date, end_date)
  /\ UNCHANGED <<ledgerItems, ledgerRefunds, statement>>

export_statement_json(seller, start_date, end_date) ==
  /\ exported' = export_statement_of("json", seller, start_date, end_date)
  /\ UNCHANGED <<ledgerItems, ledgerRefunds, statement>>

-----------------------------------------------------------------------------
(* Specifications *)

RefundIdle ==
  /\ refund = [r \in RefundIds |-> NoRefund]
  /\ nextRefund = 1
  /\ rw = [w \in Workers |-> IdleRefund]
  /\ gwCalls = [r \in RefundIds |-> 0]

CheckoutIdle == co = [w \in Workers |-> IdleCheckout]

\* Commission rates of the sellers (ten-thousandths).
RateSet == {0, 1000, 1250, 3333, 5000, 10000}

\* OrderItem rows saved with any price, quantity and commission rate.
OrderItem_create(p, quantity, price) ==
  /\ item' = <<OrderItem_save([order |-> 1, product |-> p, quantity |-> quantity,
                               price |-> price, seller |-> NoSeller])>>
  /\ UNCHANGED <<rounding, sellerRate, product, order, co, refundVars, auxVars>>

InitItem ==
  /\ rounding \in {"half_even", "half_up"}
  /\ sellerRate \in [Sellers -> RateSet]
  /\ sellerRate["sB"] = 1000
  /\ product = ProductTable
  /\ order = <<>>
  /\ item = <<>>
  /\ now = 0
  /\ CheckoutIdle
  /\ AuxIdle
  /\ RefundIdle

NextItem ==
  \E p \in Products, quantity \in 1..MaxQty, price \in 0..MaxPrice :
     OrderItem_create(p, quantity, price)

SpecItem == InitItem /\ [][NextItem]_vars

\* Checkout requests of two workers and the admin's edits of the orders.
InitCheckout ==
  /\ rounding = "half_up"
  /\ sellerRate = [s \in Sellers |-> IF s = "sA" THEN 1000 ELSE 1250]
  /\ product = ProductTable
  /\ order = <<>>
  /\ item = <<>>
  /\ now = 0
  /\ CheckoutIdle
  /\ AuxIdle
  /\ RefundIdle

NextCheckout ==
  \/ \E w \in Workers, cart \in Carts, intent \in Intents :
        checkout_load(w, cart, intent) /\ UNCHANGED <<rounding, sellerRate, refundVars, auxVars>>
  \/ \E w \in Workers :
        checkout_place(w) /\ UNCHANGED <<rounding, sellerRate, refundVars, auxVars>>
  \/ \E w \in Workers :
        checkout_return(w) /\ UNCHANGED <<rounding, sellerRate, refundVars, auxVars>>
  \/ \E o \in OrderIds, intent \in Intents \cup {NULL} :
        admin_change_order(o, intent) /\ UNCHANGED <<rounding, sellerRate, refundVars, auxVars>>

SpecCheckout == InitCheckout /\ [][NextCheckout]_vars

\* Refund requests of two workers against one order that checkout created on
\* day 0 for the cart RefundCart, one line per seller.  Since then the admin
\* recorded the payment reference, or did not, and marked the order
\* disputed, or did not.
RefundCatalogue == [ProductTable EXCEPT !["p2"].seller = "sB"]
RefundCart == [p \in Products |-> IF p = "p1" THEN 1 ELSE 2]

RefundOrder ==
  [checkout_order(checkout_items(RefundCart, RefundCatalogue), RefundCatalogue, "pi_A")
     EXCEPT !.created_at = 0]

RefundItems ==
  checkout_order_items(checkout_items(RefundCart, RefundCatalogue), 1)

InitRefund ==
  /\ rounding = "half_up"
  /\ sellerRate = [s \in Sellers |-> IF s = "sA" THEN 1000 ELSE 1250]
  /\ product = [RefundCatalogue EXCEPT
                  !["p1"].quantity_in_stock = checkout_new_stock(InitStock, RefundCart["p1"])]
  /\ now = StartDay
  /\ \E st \in {"paid", "disputed"}, pi \in {"pi_A", ""} :
        order = <<[RefundOrder EXCEPT !.status = st, !.payment_intent_id = pi]>>
  /\ item = RefundItems
  /\ CheckoutIdle
  /\ AuxIdle
  /\ RefundIdle

Selections == {sel \in SUBSET RefundIds : sel # {} /\ Cardinality(sel) <= MaxSelect}

RefundFrame == UNCHANGED <<rounding, sellerRate, product, item, co, auxVars>>

NextRefund ==
  \/ \E w \in Workers, s \in Sellers, i \in 1..Len(item) :
        refund_order_item_begin(w, s, i) /\ RefundFrame
  \/ \E w \in Workers : refund_order_item_create(w) /\ RefundFrame
  \/ \E w \in Workers, outcome \in GatewayOutcomes :
        refund_order_item_gateway(w, outcome) /\ RefundFrame
  \/ \E w \in Workers : refund_order_item_order(w) /\ RefundFrame
  \/ \E w \in Workers, op \in ApproveOne, r \in RefundIds :
        approve_begin(w, op, {r}) /\ RefundFrame
  \/ \E w \in Workers, sel \in Selections :
        approve_begin(w, "approve_selected_refunds", sel) /\ RefundFrame
  \/ \E w \in Workers : approve_processing(w) /\ RefundFrame
  \/ \E w \in Workers, outcome \in GatewayOutcomes :
        approve_gateway(w, outcome) /\ RefundFrame
  \/ \E w \in Workers : approve_order(w) /\ RefundFrame
  \/ \E w \in Workers : deadlock_abort(w) /\ RefundFrame
  \/ \E w \in Workers, op \in RejectOne, r \in RefundIds :
        reject_begin(w, op, r) /\ RefundFrame
  \/ \E w \in Workers : reject_save(w) /\ RefundFrame
  \/ \E sel \in Selections : reject_selected_refunds(sel) /\ RefundFrame
  \/ \E w \in Workers, o \in OrderIds, i \in ForceItems,
        amount \in ForceAmounts :
        force_refund_create(w, o, i, amount) /\ RefundFrame
  \/ \E w \in Workers, outcome \in GatewayOutcomes :
        force_refund_gateway(w, outcome) /\ RefundFrame
  \/ \E w \in Workers : force_refund_order(w) /\ RefundFrame
  \/ \E w \in Workers : refund_return(w) /\ RefundFrame
  \/ Tick /\ RefundFrame

SpecRefund == InitRefund /\ [][NextRefund]_vars

-----------------------------------------------------------------------------
(* The sellers' refund requests on an order that has a single line. *)

SingleCarts ==
  {cart \in Carts : Cardinality({p \in Products : cart[p] > 0}) = 1}

InitSingle ==
  /\ rounding = "half_up"
  /\ sellerRate = [s \in Sellers |-> IF s = "sA" THEN 1000 ELSE 1250]
  /\ now = StartDay
  /\ \E cart \in SingleCarts, st \in {"paid", "disputed"} :
        LET lines == checkout_items(cart, RefundCatalogue) IN
          /\ product = [RefundCatalogue EXCEPT !["p1"].quantity_in_stock =
                           checkout_new_stock(InitStock, cart["p1"])]
          /\ order = <<[checkout_order(lines, RefundCatalogue, "pi_A")
                          EXCEPT !.created_at = 0, !.status = st,
                                 !.payment_intent_id = "pi_A"]>>
          /\ item = checkout_order_items(lines, 1)
  /\ CheckoutIdle
  /\ AuxIdle
  /\ RefundIdle

NextSingle ==
  \/ \E w \in Workers, s \in Sellers, i \in 1..Len(item) :
        refund_order_item_begin(w, s, i) /\ RefundFrame
  \/ \E w \in Workers : refund_order_item_create(w) /\ RefundFrame
  \/ \E w \in Workers, outcome \in GatewayOutcomes :
        refund_order_item_gateway(w, outcome) /\ RefundFrame
  \/ \E w \in Workers : refund_order_item_order(w) /\ RefundFrame
  \/ \E w \in Workers : refund_return(w) /\ RefundFrame
  \/ Tick /\ RefundFrame

SpecSingle == InitSingle /\ [][NextSingle]_vars

-----------------------------------------------------------------------------
(* An OrderItem after its creation: the admin changes a seller's commission
   rate, and edits the item in the inline of the Order change form. *)

\* Seller.commission_rate saved from the Seller change form.
seller_set_commission_rate(s, rate) ==
  /\ sellerRate[s] # rate
  /\ sellerRate' = [sellerRate EXCEPT ![s] = rate]
  /\ UNCHANGED <<rounding, product, order, item, co, refundVars, auxVars>>

\* OrderItemInline: seller, quantity and price are editable; the formset
\* saves the row, through OrderItem.save, when the form has changed.
OrderItemInline_save(i, seller, quantity, price) ==
  /\ i \in 1..Len(item)
  /\ <<seller, quantity, price>> # <<item[i].seller, item[i].quantity, item[i].price>>
  /\ item' = [item EXCEPT ![i] =
        OrderItem_save([item[i] EXCEPT !.seller = seller, !.quantity = quantity,
                                       !.price = price])]
  /\ UNCHANGED <<rounding, sellerRate, product, order, co, refundVars, auxVars>>

InitItemEdit == InitItem

NextItemEdit ==
  \/ \E p \in Products, quantity \in 1..MaxQty, price \in 0..MaxPrice :
        item = <<>> /\ OrderItem_create(p, quantity, price)
  \/ \E s \in Sellers, rate \in RateSet : seller_set_commission_rate(s, rate)
  \/ \E i \in 1..1, seller \in Sellers \cup {NoSeller},
        quantity \in 1..MaxQty, price \in 0..MaxPrice :
        OrderItemInline_save(i, seller, quantity, price)

SpecItemEdit == InitItemEdit /\ [][NextItemEdit]_vars

-----------------------------------------------------------------------------
(* One worker's refund requests against a gateway that answers or times out.
   create_stripe_refund wraps every exception of the Stripe call, a time-out
   among them, in StripeRefundError. *)

TimeoutOutcomes == {"ok", "timeout"}

NextTimeout ==
  \/ \E s \in Sellers, i \in 1..Len(item) :
        refund_order_item_begin("w1", s, i) /\ RefundFrame
  \/ refund_order_item_create("w1") /\ RefundFrame
  \/ \E outcome \in TimeoutOutcomes :
        refund_order_item_gateway("w1", outcome) /\ RefundFrame
  \/ refund_order_item_order("w1") /\ RefundFrame
  \/ \E op \in ApproveOne, r \in RefundIds :
        approve_begin("w1", op, {r}) /\ RefundFrame
  \/ approve_processing("w1") /\ RefundFrame
  \/ \E outcome \in TimeoutOutcomes : approve_gateway("w1", outcome) /\ RefundFrame
  \/ approve_order("w1") /\ RefundFrame
  \/ \E o \in OrderIds, i \in ForceItems, amount \in ForceAmounts :
        force_refund_create("w1", o, i, amount) /\ RefundFrame
  \/ \E outcome \in TimeoutOutcomes : force_refund_gateway("w1", outcome) /\ RefundFrame
  \/ force_refund_order("w1") /\ RefundFrame
  \/ refund_return("w1") /\ RefundFrame
  \/ Tick /\ RefundFrame

SpecTimeout == InitRefund /\ [][NextTimeout]_vars

-----------------------------------------------------------------------------
(* An order in any status, under the seller's status update of order_detail
   and the seller's refund requests. *)

\* What the status field of the POST can carry.
PostedStatuses == OrderStatuses \cup {"unknown"}

\* sellers.views.order_detail, POST: the order must hold an item of the
\* seller; a status among STATUS_CHOICES that is processing or shipped is
\* stored with order.save(), anything else is answered with an error.
order_detail_post(seller, o, new_status) ==
  /\ o \in 1..Len(order)
  /\ order' =
       IF /\ \E i \in 1..Len(item) : item[i].order = o /\ item[i].seller = seller
          /\ new_status \in OrderStatuses
          /\ new_status \in {"processing", "shipped"}
       THEN [order EXCEPT ![o].status = new_status]
       ELSE order
  /\ UNCHANGED <<refund, nextRefund, rw, gwCalls, now>>

InitOrderStatus ==
  /\ rounding = "half_up"
  /\ sellerRate = [s \in Sellers |-> IF s = "sA" THEN 1000 ELSE 1250]
  /\ product = [RefundCatalogue EXCEPT
                  !["p1"].quantity_in_stock = checkout_new_stock(InitStock, RefundCart["p1"])]
  /\ now = StartDay
  /\ \E st \in OrderStatuses :
        order = <<[RefundOrder EXCEPT !.status = st, !.payment_intent_id = "pi_A"]>>
  /\ item = RefundItems
  /\ CheckoutIdle
  /\ AuxIdle
  /\ RefundIdle

NextOrderStatus ==
  \/ \E s \in Sellers, o \in OrderIds, st \in PostedStatuses :
        order_detail_post(s, o, st) /\ RefundFrame
  \/ \E s \in Sellers, i \in 1..Len(item) :
        refund_order_item_begin("w1", s, i) /\ RefundFrame
  \/ refund_order_item_create("w1") /\ RefundFrame
  \/ \E outcome \in GatewayOutcomes :
        refund_order_item_gateway("w1", outcome) /\ RefundFrame
  \/ refund_order_item_order("w1") /\ RefundFrame
  \/ refund_return("w1") /\ RefundFrame
  \/ Tick /\ RefundFrame

SpecOrderStatus == InitOrderStatus /\ [][NextOrderStatus]_vars

-----------------------------------------------------------------------------
(* The ledger an earnings statement reads: order items as checkout stores
   them and refunds that succeeded, each dated by the day it was created. *)

\* line_total, platform_fee, seller_earnings as OrderItem.save splits a line
\* at a 10% and at a 0% commission rate.
LedgerSplits ==
  { [line_total |-> 5000, platform_fee |-> 500, seller_earnings |-> 4500],
    [line_total |-> 4000, platform_fee |-> 0, seller_earnings |-> 4000] }

LedgerAmounts ==
  {sp.line_total : sp \in LedgerSplits} \cup {sp.line_total \div 2 : sp \in LedgerSplits}

ledger_order(seller, split) ==
  /\ Len(ledgerItems) < MaxLedgerRows
  /\ ledgerItems' = Append(ledgerItems,
        [seller |-> seller, date |-> now, line_total |-> split.line_total,
         platform_fee |-> split.platform_fee,
         seller_earnings |-> split.seller_earnings])
  /\ UNCHANGED <<ledgerRefunds, statement, now>>

\* A refund of item i, of the full line or of half of it, that succeeded.
ledger_refund(i, amount) ==
  /\ Len(ledgerRefunds) < MaxLedgerRows
  /\ i \in 1..Len(ledgerItems)
  /\ amount \in {ledgerItems[i].line_total, ledgerItems[i].line_total \div 2}
  /\ \A k \in 1..Len(ledgerRefunds) : ledgerRefunds[k].order_item # i
  /\ ledgerRefunds' = Append(ledgerRefunds,
        [seller |-> ledgerItems[i].seller, date |-> now, order_item |-> i,
         amount |-> amount, status |-> "succeeded"])
  /\ UNCHANGED <<ledgerItems, statement, now>>

ledger_tick ==
  /\ now < MaxLedgerDay
  /\ now' = now + 1
  /\ UNCHANGED <<ledgerItems, ledgerRefunds, statement>>

LedgerFrame ==
  UNCHANGED <<rounding, sellerRate, product, order, item, co,
              refund, nextRefund, rw, gwCalls, inventoryLog, shipOrder,
              moreVars>>

InitStatement ==
  /\ rounding = "half_up"
  /\ sellerRate = [s \in Sellers |-> 1000]
  /\ product = ProductTable
  /\ order = <<>>
  /\ item = <<>>
  /\ CheckoutIdle
  /\ RefundIdle
  /\ now = 1
  /\ LedgerIdle
  /\ inventoryLog = <<>>
  /\ shipOrder = NoShipOrder
  /\ MoreIdle

NextStatement ==
  \/ \E s \in Sellers, sp \in LedgerSplits : ledger_order(s, sp) /\ LedgerFrame
  \/ \E i \in 1..MaxLedgerRows, a \in LedgerAmounts : ledger_refund(i, a) /\ LedgerFrame
  \/ ledger_tick /\ LedgerFrame
  \/ \E s \in Sellers, f \in 1..MaxLedgerDay, t \in 1..MaxLedgerDay :
        /\ f <= t
        /\ earnings_statement(s, f, t)
        /\ UNCHANGED now
        /\ LedgerFrame

SpecStatement == InitStatement /\ [][NextStatement]_vars

\* The exports of the statement over the ledger; what the screen shows for
\* the same request is statement_of over the same rows.
ExportFrame ==
  UNCHANGED <<rounding, sellerRate, product, order, item, co,
              refund, nextRefund, rw, gwCalls, now, inventoryLog, shipOrder,
              aw, adjustCalls, taxFlags, quote, payoutHold, dash, userProfile>>

InitExport == InitStatement

NextExport ==
  \/ \E s \in Sellers, sp \in LedgerSplits : ledger_order(s, sp) /\ LedgerFrame
  \/ \E i \in 1..MaxLedgerRows, a \in LedgerAmounts : ledger_refund(i, a) /\ LedgerFrame
  \/ ledger_tick /\ LedgerFrame
  \/ \E s \in Sellers, f \in 1..MaxLedgerDay, t \in 1..MaxLedgerDay :
        /\ f <= t
        /\ export_statement_csv(s, f, t)
        /\ ExportFrame
  \/ \E s \in Sellers, f \in 1..MaxLedgerDay, t \in 1..MaxLedgerDay :
        /\ f <= t
        /\ export_statement_json(s, f, t)
        /\ ExportFrame

SpecExport == InitExport /\ [][NextExport]_vars

-----------------------------------------------------------------------------
(* The stock of the catalogue under checkouts of one customer and the
   inventory operations of the staff. *)

InventoryFrame ==
  UNCHANGED <<rounding, sellerRate, refundVars, ledgerVars, shipOrder, moreVars>>

InitInventory == InitCheckout

NextInventory ==
  \/ \E cart \in Carts, intent \in Intents :
        checkout_load("w1", cart, intent) /\ UNCHANGED inventoryLog /\ InventoryFrame
  \/ checkout_place("w1") /\ UNCHANGED inventoryLog /\ InventoryFrame
  \/ checkout_return("w1") /\ UNCHANGED inventoryLog /\ InventoryFrame
  \/ \E p \in Products, quantity \in 0..InitStock :
        set_beginning_balance(p, quantity) /\ InventoryFrame
  \/ \E p \in Products, delta \in (0 - MaxQty)..MaxQty, ct \in ChangeTypes :
        adjust_inventory(p, delta, ct) /\ InventoryFrame

SpecInventory == InitInventory /\ [][NextInventory]_vars

-----------------------------------------------------------------------------
(* One order from checkout on, under the edits of the admin site. *)

ShippingFrame ==
  UNCHANGED <<rounding, sellerRate, checkoutVars, refundVars, ledgerVars,
              inventoryLog, moreVars>>

InitShipping == InitCheckout

NextShipping ==
  \/ \E profile \in [ShipFields -> ShipValues] :
        checkout_snapshot(profile) /\ ShippingFrame
  \/ \E status \in OrderStatuses, ship \in EditedSnapshots(shipOrder.ship) :
        admin_save_order(status, ship) /\ ShippingFrame

SpecShipping == InitShipping /\ [][NextShipping]_vars

-----------------------------------------------------------------------------
(* Concurrent adjust_inventory calls of two workers on the catalogue. *)

AdjustFrame ==
  UNCHANGED <<rounding, sellerRate, order, item, co, refundVars, ledgerVars,
              shipOrder>>

InitAdjust == InitCheckout

NextAdjust ==
  \/ \E w \in Workers, p \in Products, delta \in (0 - MaxQty)..MaxQty :
        adjust_inventory_update(w, p, delta) /\ AdjustFrame
  \/ \E w \in Workers : adjust_inventory_commit(w) /\ AdjustFrame

SpecAdjust == InitAdjust /\ [][NextAdjust]_vars

-----------------------------------------------------------------------------
(* Checkout totals over catalogues that differ in prices, kinds and tax
   flags. *)

QuotePrices == {0, 2500, 5000, 9999}

QuoteCatalogues ==
  {[ProductTable EXCEPT !["p1"].price = a, !["p2"].price = b,
                        !["p2"].is_digital = d] :
      a \in QuotePrices, b \in {1, 1999}, d \in BOOLEAN}

QuoteFrame ==
  UNCHANGED <<rounding, sellerRate, checkoutVars, refundVars, ledgerVars,
              inventoryLog, shipOrder>>

InitQuote ==
  /\ rounding = "half_up"
  /\ sellerRate = [s \in Sellers |-> 1000]
  /\ product \in QuoteCatalogues
  /\ order = <<>>
  /\ item = <<>>
  /\ now = 0
  /\ CheckoutIdle
  /\ RefundIdle
  /\ LedgerIdle
  /\ inventoryLog = <<>>
  /\ shipOrder = NoShipOrder
  /\ aw = [w \in Workers |-> IdleAdjust]
  /\ adjustCalls = <<>>
  /\ taxFlags \in [Products -> [charge_gst : BOOLEAN, charge_pst : BOOLEAN]]
  /\ quote = NoQuote
  /\ LateIdle

NextQuote ==
  \E cart \in Carts, pickup \in BOOLEAN : checkout_quote(cart, pickup) /\ QuoteFrame

SpecQuote == InitQuote /\ [][NextQuote]_vars

-----------------------------------------------------------------------------
(* The dashboard of a seller over order items of different ages and payout
   hold settings. *)

DashNow == 20
MaxDashRows == 2
DashDays == {5, 6, 12, 13, 19}
HoldDayChoices == {7, 14}

DashRows ==
  [seller : Sellers, date : DashDays, line_total : {5000},
   platform_fee : {500}, seller_earnings : {4500}]

DashFrame ==
  UNCHANGED <<rounding, sellerRate, checkoutVars, refundVars, ledgerVars,
              inventoryLog, shipOrder, aw, adjustCalls, taxFlags, quote>>

InitDashboard ==
  /\ rounding = "half_up"
  /\ sellerRate = [s \in Sellers |-> 1000]
  /\ product = ProductTable
  /\ order = <<>>
  /\ item = <<>>
  /\ now = DashNow
  /\ CheckoutIdle
  /\ RefundIdle
  /\ \E n \in 0..MaxDashRows : ledgerItems \in [1..n -> DashRows]
  /\ ledgerRefunds = <<>>
  /\ statement = NoStatement
  /\ inventoryLog = <<>>
  /\ shipOrder = NoShipOrder
  /\ aw = [w \in Workers |-> IdleAdjust]
  /\ adjustCalls = <<>>
  /\ taxFlags = DefaultTaxFlags
  /\ quote = NoQuote
  /\ payoutHold \in [Sellers -> HoldDayChoices]
  /\ dash = NoDash
  /\ userProfile = <<>>
  /\ exported = NoExport

NextDashboard ==
  \E s \in Sellers : dashboard(s) /\ DashFrame

SpecDashboard == InitDashboard /\ [][NextDashboard]_vars

-----------------------------------------------------------------------------
(* Checkout of one customer over catalogues with inactive products, low
   stock and seat-limited services. *)

AvailCatalogues ==
  {[ProductTable EXCEPT !["p1"].is_active = a1,
                        !["p1"].quantity_in_stock = st,
                        !["p2"].is_active = a2,
                        !["p2"].is_digital = ~sv,
                        !["p2"].is_service = sv,
                        !["p2"].service_seats = IF sv THEN seats ELSE None] :
      a1 \in BOOLEAN, st \in {1, InitStock}, a2 \in BOOLEAN, sv \in BOOLEAN,
      seats \in {None, 1}}

AvailFrame == UNCHANGED <<rounding, sellerRate, refundVars, auxVars>>

InitAvail ==
  /\ rounding = "half_up"
  /\ sellerRate = [s \in Sellers |-> IF s = "sA" THEN 1000 ELSE 1250]
  /\ product \in AvailCatalogues
  /\ order = <<>>
  /\ item = <<>>
  /\ now = 0
  /\ CheckoutIdle
  /\ AuxIdle
  /\ RefundIdle

NextAvail ==
  \/ \E cart \in Carts, intent \in Intents :
        checkout_load("w1", cart, intent) /\ AvailFrame
  \/ checkout_place("w1") /\ AvailFrame
  \/ checkout_return("w1") /\ AvailFrame

SpecAvail == InitAvail /\ [][NextAvail]_vars

-----------------------------------------------------------------------------
(* Checkout of a customer whose profile holds an address. *)

ProfileFields == ShipFields \ {"ship_name"}

InitSnapshot ==
  /\ rounding = "half_up"
  /\ sellerRate = [s \in Sellers |-> IF s = "sA" THEN 1000 ELSE 1250]
  /\ product = ProductTable
  /\ order = <<>>
  /\ item = <<>>
  /\ now = 0
  /\ CheckoutIdle
  /\ RefundIdle
  /\ LedgerIdle
  /\ inventoryLog = <<>>
  /\ shipOrder = NoShipOrder
  /\ aw = [w \in Workers |-> IdleAdjust]
  /\ adjustCalls = <<>>
  /\ taxFlags = DefaultTaxFlags
  /\ quote = NoQuote
  /\ payoutHold = [s \in Sellers |-> DefaultHoldDays]
  /\ dash = NoDash
  /\ userProfile \in [ProfileFields -> ShipValues]
  /\ exported = NoExport

NextSnapshot == checkout_snapshot(userProfile) /\ ShippingFrame

SpecSnapshot == InitSnapshot /\ [][NextSnapshot]_vars

-----------------------------------------------------------------------------
(* Properties *)

Active == {"processing", "succeeded"}
Terminal == {"rejected", "succeeded", "failed"}

\* The committed Refund rows of order o in status processing or succeeded.
ActiveRefunds(o) ==
  {r \in RefundIds : refund[r].order = o /\ refund[r].status \in Active}

ActiveAmount(o) ==
  SumSeq([r \in RefundIds |-> IF r \in ActiveRefunds(o) THEN refund[r].amount ELSE 0])

\* The cap of the active refunds of order o: the line totals of the order
\* items they cover, the order total when one of them covers the order.
RefundCap(o) ==
  IF \E r \in ActiveRefunds(o) : refund[r].order_item = None
  THEN order[o].total
  ELSE SumSeq([i \in 1..Len(item) |->
                 IF \E r \in ActiveRefunds(o) : refund[r].order_item = i
                 THEN item[i].line_total ELSE 0])

\* C1: for every order, the amounts of its refunds in status processing or
\* succeeded never add up to more than the line totals of the order items
\* those refunds cover (the order total for order-level refunds), whatever
\* refund operations ran, force_refund included.
C1_RefundAmountCap ==
  \A o \in 1..Len(order) : ActiveAmount(o) <= RefundCap(o)

\* C2: for every order item, at most one Refund row that targets it is in
\* status processing or succeeded, under every interleaving of seller
\* requests, admin approvals and force refunds.
C2_OneActiveRefundPerItem ==
  \A i \in 1..Len(item) :
     Cardinality({r \in RefundIds : refund[r].order_item = i
                                    /\ refund[r].status \in Active}) <= 1

\* C3: of the checkout requests made for one payment intent exactly one
\* creates an Order: no two Orders were placed for the same payment intent.
C3_OneOrderPerPaymentIntent ==
  \A o1, o2 \in 1..Len(order) :
     o1 # o2 => order[o1].placed_for # order[o2].placed_for

\* The quantity of product p sold by the orders that were created.
SoldQuantity(p) ==
  SumSeq([i \in 1..Len(item) |-> IF item[i].product = p THEN item[i].quantity ELSE 0])

\* C4: after any interleaving of checkouts that buy the same physical
\* product its stock is max(0, initial stock - quantities sold by the orders
\* created) and never negative: no decrement of a committed order is lost.
C4_StockMatchesSales ==
  LET left == InitStock - SoldQuantity("p1")
  IN /\ product["p1"].quantity_in_stock >= 0
     /\ product["p1"].quantity_in_stock = IF left < 0 THEN 0 ELSE left

\* C5: however often and through whichever entry point a Refund is approved,
\* the payment gateway is called at most once for that Refund row.
C5_GatewayCalledOncePerRefund ==
  \A r \in RefundIds : gwCalls[r] <= 1

\* C6: rejected, succeeded and failed are terminal: no operation changes the
\* status of a stored Refund that is in one of them.
C6_TerminalStatusNeverLeft ==
  [][\A r \in RefundIds :
        refund[r].status \in Terminal => refund'[r].status = refund[r].status]_vars

\* C7: when the gateway call of a refund fails with a gateway error, then at
\* the moment the operation returns the store holds the Refund row of that
\* attempt in status failed.
C7_GatewayErrorLeavesFailedRow ==
  [][\A w \in Workers :
        (/\ rw[w].pc # "done"
         /\ rw'[w].pc = "done"
         /\ rw'[w].gw = "stripe_error")
        => refund'[rw'[w].rid].status = "failed"]_vars

\* No refund operation is in flight.
RefundsQuiescent == \A w \in Workers : rw[w].pc \in {"idle", "done"}

SucceededAmount(o) == total_refunded_of(refund, o)

\* C8: once the operations that brought refunds of an order to succeeded
\* have returned, the order is refunded if the amounts of its succeeded
\* refunds reach the order total, and partially_refunded otherwise.
C8_OrderStatusFollowsRefunds ==
  \A o \in 1..Len(order) :
     (/\ RefundsQuiescent
      /\ \E r \in RefundIds : refund[r].order = o /\ refund[r].status = "succeeded")
     => order[o].status =
          IF SucceededAmount(o) >= order[o].total
          THEN "refunded" ELSE "partially_refunded"

\* C9: every stored OrderItem has platform_fee + seller_earnings equal to
\* line_total, and one without a seller has platform_fee 0 and
\* seller_earnings equal to line_total.
C9_SplitSumsToLineTotal ==
  \A i \in 1..Len(item) :
     /\ item[i].platform_fee + item[i].seller_earnings = item[i].line_total
     /\ item[i].seller = NoSeller =>
          item[i].platform_fee = 0 /\ item[i].seller_earnings = item[i].line_total

\* The OrderItems created for order o.
ItemsOf(o) == {i \in 1..Len(item) : item[i].order = o}

\* C10: every Order created by checkout has subtotal + tax + shipping equal
\* to total, and subtotal equal to the sum of line_total of its OrderItems.
C10_OrderTotalsAddUp ==
  \A o \in 1..Len(order) :
     /\ order[o].subtotal + order[o].tax + order[o].shipping = order[o].total
     /\ order[o].subtotal =
          SumSeq([i \in 1..Len(item) |->
                    IF i \in ItemsOf(o) THEN item[i].line_total ELSE 0])

\* An order of two lines that pays tax and shipping was created.
C10_Witness ==
  \E o \in 1..Len(order) :
     /\ Cardinality(ItemsOf(o)) = 2
     /\ order[o].shipping > 0
     /\ order[o].tax > 0

RECURSIVE SumAmounts(_, _)
SumAmounts(entries, k) ==
  IF k = 0 THEN 0 ELSE entries[k].amount + SumAmounts(entries, k - 1)

\* C11: a rendered earnings statement lists its transactions by date
\* ascending, every entry's running balance is the sum of the signed amounts
\* of the entries up to and including it (from zero), and the ending balance
\* is the sum of all signed amounts.
C11_StatementBalances ==
  statement.rendered =>
    LET t == statement.transactions IN
      /\ \A k \in 1..(Len(t) - 1) : t[k].date <= t[k + 1].date
      /\ \A k \in 1..Len(t) : t[k].balance = SumAmounts(t, k)
      /\ statement.final_balance = SumAmounts(t, Len(t))

\* C12: every step that changes a product's stock appends exactly one
\* InventoryLog row, for that product, in the same step; no stock changes
\* without a log row.
C12_StockChangeIsLogged ==
  [][\A p \in Products :
       product'[p].quantity_in_stock # product[p].quantity_in_stock =>
         /\ Len(inventoryLog') = Len(inventoryLog) + 1
         /\ inventoryLog'[Len(inventoryLog')].product = p]_vars

\* The request of worker w is refund_order_item at position pc.
SellerRefundAt(w, pc) == rw[w].op = "refund_order_item" /\ rw[w].pc = pc

\* C13: a seller's refund request that passes the eligibility checks is
\* created approved and sent to the gateway exactly when the seller owns the
\* item, the clock is within 7 days of order.created_at, the amount is the
\* full line and the order is not disputed; in every other case the row is
\* committed as requested, the gateway is not called and the request ends.
C13_AutoRefundExactlyWhenPolicyHolds ==
  [][\A w \in Workers :
       /\ (rw[w].pc = "idle" /\ rw'[w].pc = "s_create") =>
            LET obj == rw'[w].obj IN
              /\ item[obj.order_item].seller = obj.seller
              /\ rw'[w].auto <=>
                   /\ item[obj.order_item].seller = obj.seller
                   /\ now <= order[obj.order].created_at + 7
                   /\ obj.amount = item[obj.order_item].line_total
                   /\ order[obj.order].status # "disputed"
       /\ (SellerRefundAt(w, "s_create") /\ rw'[w].pc # "s_create") =>
            IF rw[w].auto
            THEN /\ rw'[w].pc = "s_gateway"
                 /\ rw'[w].tx[rw'[w].rid].status = "processing"
            ELSE /\ rw'[w].pc = "done"
                 /\ rw'[w].result = "requested"
                 /\ refund'[rw'[w].rid].status = "requested"
                 /\ gwCalls' = gwCalls
       /\ (rw'[w].op = "refund_order_item" /\ gwCalls' # gwCalls /\ rw'[w] # rw[w]) =>
            rw[w].auto]_vars

C13_Witness ==
  \E w \in Workers, v \in Workers :
     /\ SellerRefundAt(w, "s_gateway")
     /\ rw[v].op = "refund_order_item" /\ rw[v].result = "requested"

\* C14: no step stores a new Refund row for an order whose payment_intent_id
\* is empty or whose status is cancelled.
C14_NoRefundRowForIneligibleOrder ==
  [][\A r \in RefundIds :
       (refund[r] = NoRefund /\ refund'[r] # NoRefund) =>
          /\ has_payment_intent(refund'[r].order)
          /\ order[refund'[r].order].status # "cancelled"]_vars

\* C15: once the stored status of an order is paid, shipped or delivered, no
\* later save changes any field of its shipping-address snapshot.
C15_ShippingSnapshotFrozen ==
  [][(shipOrder.pk # None /\ shipOrder.status \in {"paid", "shipped", "delivered"})
        => shipOrder'.ship = shipOrder.ship]_vars

\* C16: when a seller's auto-approved full-line refund of the only item of
\* an order has been processed with the gateway succeeding, the Refund row
\* is succeeded with the gateway's refund id and the order is refunded.
C16_SingleItemRefundRefundsOrder ==
  \A w \in Workers :
     (rw[w].op = "refund_order_item" /\ rw[w].pc = "done" /\ rw[w].result = "succeeded") =>
        /\ refund[rw[w].rid].status = "succeeded"
        /\ refund[rw[w].rid].stripe_refund_id # None
        /\ order[refund[rw[w].rid].order].status = "refunded"

\* C17: after an OrderItem has been created, a step that leaves its seller,
\* quantity and price as they were also leaves its line_total, platform_fee
\* and seller_earnings as they were (the claim, which allows no change at
\* all, implies this).
C17_SplitFrozenAfterCreation ==
  [][(/\ item # <<>>
      /\ item'[1].seller = item[1].seller
      /\ item'[1].quantity = item[1].quantity
      /\ item'[1].price = item[1].price)
        => /\ item'[1].line_total = item[1].line_total
           /\ item'[1].platform_fee = item[1].platform_fee
           /\ item'[1].seller_earnings = item[1].seller_earnings]_vars

\* C18: every stored Refund row whose status is succeeded holds a gateway
\* refund id.
C18_SucceededHasGatewayId ==
  \A r \in RefundIds :
     refund[r].status = "succeeded" => refund[r].stripe_refund_id # None

C18_Witness ==
  \E r \in RefundIds, q \in RefundIds :
     /\ refund[r].status = "succeeded" /\ refund[r].order_item # None
     /\ refund[q].status = "failed"

\* C19: whenever a request has saved PROCESSING and stands at its gateway
\* call, the stored Refund row is in processing: the transition was committed
\* before the call, so a worker that stops there leaves the row processing.
C19_ProcessingCommittedBeforeGateway ==
  \A w \in Workers :
     rw[w].pc \in {"s_gateway", "a_gateway", "f_gateway"} =>
        refund[rw[w].rid].status = "processing"

\* C20: when the gateway call of a request times out, the stored Refund row
\* of that request is in processing after the step: it is neither failed nor
\* succeeded, nor gone.
C20_TimeoutLeavesProcessing ==
  [][\A w \in Workers :
       (rw[w].gw # "timeout" /\ rw'[w].gw = "timeout") =>
          refund'[rw[w].rid].status = "processing"]_vars

\* The deltas of the returned adjust_inventory calls on product p.
AdjustDeltas(p) ==
  LET calls == SelectSeq(adjustCalls, LAMBDA c : c.product = p)
  IN [k \in 1..Len(calls) |-> calls[k].delta]

\* The stock after the deltas were applied one at a time, each clamped at 0.
RECURSIVE ApplyOneByOne(_, _)
ApplyOneByOne(stock, deltas) ==
  IF deltas = <<>> THEN stock
  ELSE ApplyOneByOne(IF stock + Head(deltas) < 0 THEN 0 ELSE stock + Head(deltas),
                     Tail(deltas))

Orderings(n) ==
  {f \in [1..n -> 1..n] : \A i, j \in 1..n : i # j => f[i] # f[j]}

AdjustQuiescent == \A w \in Workers : aw[w].pc = "idle"

\* C21: every adjust_inventory call takes effect as one step that sets the
\* stock to max(0, stock + delta) of the stock stored just before it and
\* appends one log row with the requested delta; the stock is never
\* negative; and when no call is running, the stock of each product is what
\* the returned calls give when applied one at a time in some order, and the
\* log has one row per call.
C21_AdjustInventoryIsAtomic ==
  /\ [](\A p \in Products : product[p].quantity_in_stock >= 0)
  /\ [](AdjustQuiescent =>
          /\ Len(inventoryLog) = Len(adjustCalls)
          /\ \A p \in Products :
               LET d == AdjustDeltas(p) IN
                 \E f \in Orderings(Len(d)) :
                    product[p].quantity_in_stock =
                       ApplyOneByOne(ProductTable[p].quantity_in_stock,
                                     [k \in 1..Len(d) |-> d[f[k]]]))
  /\ [][\A w \in Workers :
          (aw[w].pc = "updated" /\ aw'[w].pc = "idle") =>
             LET p == aw[w].product
                 n == product[p].quantity_in_stock + aw[w].delta
             IN /\ product'[p].quantity_in_stock = (IF n < 0 THEN 0 ELSE n)
                /\ Len(inventoryLog') = Len(inventoryLog) + 1
                /\ inventoryLog'[Len(inventoryLog')].delta = aw[w].delta
                /\ inventoryLog'[Len(inventoryLog')].product = p]_vars

\* MaxAdjust calls on product p1 have returned, a decrement among them, and
\* the stock was clamped at zero.
C21_Witness ==
  /\ AdjustQuiescent
  /\ Len(AdjustDeltas("p1")) = MaxAdjust
  /\ product["p1"].quantity_in_stock = 0
  /\ \E k \in 1..Len(inventoryLog) : inventoryLog[k].delta < 0

\* C22: the shipping charge of a checkout is zero when the subtotal is zero,
\* when the cart holds no physical item, when pickup is selected and when
\* the subtotal is at least 100.00; it is the flat fee otherwise.
C22_ShippingCharge ==
  quote.rendered =>
    quote.shipping =
      IF \/ quote.subtotal = 0
         \/ ~\E i \in 1..Len(quote.items) : is_physical(product[quote.items[i].product])
         \/ quote.pickup
         \/ quote.subtotal >= 10000
      THEN 0 ELSE 1500

\* C23: the tax of an order is the sum over its lines of 5% of the line total
\* where the product's charge_gst is set plus 7% of it where charge_pst is
\* set.  Checked here in the two cases that need no rounding rule: an order
\* whose products have neither flag, and an order of subtotal zero, have
\* zero tax.
C23_TaxFollowsProductFlags ==
  quote.rendered =>
    /\ (\A i \in 1..Len(quote.items) :
           /\ ~taxFlags[quote.items[i].product].charge_gst
           /\ ~taxFlags[quote.items[i].product].charge_pst) => quote.tax = 0
    /\ quote.subtotal = 0 => quote.tax = 0

\* C24: once the status of an order is delivered, cancelled or refunded, no
\* step changes it.
C24_TerminalOrderStatusKept ==
  [][\A o \in 1..Len(order) :
       order[o].status \in {"delivered", "cancelled", "refunded"} =>
          order'[o].status = order[o].status]_vars

\* C25: on the dashboard of a seller, available earnings are the seller
\* earnings of the seller's items whose order is older than now minus the
\* seller's payout_hold_days, pending earnings those of the other items, and
\* the next payout date the date of the oldest pending order plus the hold
\* days.
C25_EarningsFollowSellerHoldDays ==
  dash.rendered =>
    LET hold == payoutHold[dash.seller]
        mine == SelectSeq(ledgerItems, LAMBDA e : e.seller = dash.seller)
        old == SelectSeq(mine, LAMBDA e : e.date < now - hold)
        young == SelectSeq(mine, LAMBDA e : ~(e.date < now - hold))
    IN /\ dash.available_earnings = SumEarnings(old)
       /\ dash.pending_earnings = SumEarnings(young)
       /\ dash.next_payout_date =
             IF young = <<>> THEN None ELSE OldestDate(young) + hold

\* The request of worker w is being placed in this step.
Placing(w) == co[w].pc = "loaded" /\ co'[w].pc = "done"

\* C26: when a product of the cart is inactive at order placement, the
\* request creates no Order and no OrderItem and changes no stock.
C26_InactiveProductRejectsOrder ==
  [][\A w \in Workers :
       (Placing(w) /\ \E p \in Products : co[w].cart[p] > 0 /\ ~product[p].is_active)
          => /\ order' = order
             /\ item' = item
             /\ product' = product]_vars

\* C27: when a physical line of the cart asks for more than the stock, or a
\* line of a seat-limited service for more than the seats, the request
\* creates no Order and changes no stock and no seat count.
C27_UnavailableLineRejectsOrder ==
  [][\A w \in Workers :
       (Placing(w) /\ \E p \in Products :
           /\ co[w].cart[p] > 0 /\ product[p].is_active
           /\ IF product[p].is_service
              THEN product[p].service_seats # None
                      /\ product[p].service_seats < co[w].cart[p]
              ELSE (~product[p].is_digital)
                      /\ product[p].quantity_in_stock # None
                      /\ product[p].quantity_in_stock < co[w].cart[p])
          => /\ order' = order
             /\ item' = item
             /\ product' = product]_vars

\* C28: when checkout has created the order of a customer who has a profile,
\* the stored snapshot fields of the order equal the address fields of the
\* profile.
C28_SnapshotCopiesProfile ==
  [][(shipOrder.pk = None /\ shipOrder'.pk # None) =>
        /\ shipOrder'.status = "paid"
        /\ \A f \in ProfileFields : shipOrder'.ship[f] = userProfile[f]]_vars

\* The request held in the record c is made by the seller of its order item.
OwnItem(c) == item[c.obj.order_item].seller = c.obj.seller

\* C29: a refund_order_item request of a seller for an item of another
\* seller is refused and changes nothing: a request gets past its checks
\* only for an item of the acting seller, the checks themselves change no
\* Refund, gateway call count or order, and every later step of a request
\* that changes one of them belongs to a request for the seller's own item.
C29_SellerRefundsOnlyOwnItems ==
  [][\A w \in Workers :
       (rw'[w] # rw[w] /\ rw'[w].op = "refund_order_item") =>
          IF rw[w].pc = "idle"
          THEN /\ refund' = refund /\ gwCalls' = gwCalls /\ order' = order
               /\ rw'[w].pc # "done" => OwnItem(rw'[w])
          ELSE (refund' # refund \/ gwCalls' # gwCalls \/ order' # order)
                  => OwnItem(rw[w])]_vars

C29_Witness ==
  \E w \in Workers, v \in Workers :
     /\ rw[w].op = "refund_order_item" /\ rw[w].result = "forbidden_403"
     /\ rw[v].op = "refund_order_item" /\ rw[v].result = "succeeded"

\* C30: an exported statement reports the ending balance that the statement
\* on screen has for the same seller, the same window and the same stored
\* rows.
C30_ExportMatchesScreenBalance ==
  [][(exported' # exported /\ exported'.rendered) =>
        exported'.ending_balance =
           statement_of(exported'.seller, exported'.date_from,
                        exported'.date_to).final_balance]_vars

=============================================================================
